---- MODULE Spec2Model ----
(***************************************************************************)
(* oidc-kit (src/main.ts): the entry points authenticate,                  *)
(* signinRedirectCallback, signoutRedirectCallback and signoutRedirect,    *)
(* with the helpers signin, signout, getSessionIdFromUrl and               *)
(* getReturnToUrl, as a state machine over one browser page, and over the  *)
(* pages the redirects lead to.                                            *)
(*                                                                         *)
(* The oidc-client-ts UserManager and the browser (URL, URLSearchParams,   *)
(* history, location) are the environment: every library call is an await *)
(* whose outcome (value, rejection, or no settlement at all) is chosen     *)
(* nondeterministically; the synchronous code between two awaits is one    *)
(* action.                                                                 *)
(***************************************************************************)
EXTENDS Integers, Sequences, FiniteSets, TLC

VARIABLES
  href,        \* window.location.href, as a raw URL record
  store,       \* the user the library's userStore holds (getUser)
  opts,        \* the options argument of the running entry point
  fn,          \* the entry point that was called on this page ("none" before)
  pc,          \* the await the call is suspended at
  user,        \* the local variable user
  sessionId,   \* the local variable sessionId of authenticate
  state,       \* the local variable state of signoutRedirect
  cbState,     \* state carried by the request the provider answers (callback pages)
  log,         \* library calls, hooks and browser effects of the call, in order
  navigating,  \* a full-page navigation has been triggered
  out,         \* settlement of the promise the entry point returned
  err,         \* the error the promise rejected with
  route,       \* the route the page was loaded on ("any": a page opened directly)
  trail        \* the pages left behind by navigations, oldest first
vars == <<href, store, opts, fn, pc, user, sessionId, state, cbState, log, navigating, out, err,
          route, trail>>

-----------------------------------------------------------------------------
(* Bounds *)
MaxParams == 2      \* query parameters in the initial URL
MaxFlowParams == 1  \* the same, where the pages after the first are followed
MaxPages == 4       \* navigations followed from the first page

-----------------------------------------------------------------------------
(* JavaScript values: string | undefined.  A string is either plain text   *)
(* or the text of an absolute URL (kept as the URL record it spells).      *)
NoUrl == [path |-> "", query |-> <<>>, hash |-> ""]
Undefined == [def |-> FALSE, txt |-> "", url |-> NoUrl]
Str(t) == [def |-> TRUE, txt |-> t, url |-> NoUrl]
UrlStr(u) == [def |-> TRUE, txt |-> "", url |-> u]
\* JavaScript truthiness of string | undefined
Truthy(v) == v.def /\ (v.txt # "" \/ v.url # NoUrl)

\* payload.state of a redirect request / user.state after a callback
NoState == [has |-> FALSE, returnTo |-> Undefined]
ReturnToState(v) == [has |-> TRUE, returnTo |-> v]

\* a User of the library; present = FALSE is null
NoUser == [present |-> FALSE, expired |-> FALSE, sid |-> Undefined, state |-> NoState]
MkUser(e, s, st) == [present |-> TRUE, expired |-> e, sid |-> s, state |-> st]

-----------------------------------------------------------------------------
(* URL and URLSearchParams (WHATWG), as far as main.ts uses them.          *)
(* A raw query is the sequence of its "&"-separated segments; eq tells     *)
(* whether the segment has an "=" ("x" versus "x=").                       *)
RawParam(n, e, v) == [name |-> n, eq |-> e, value |-> v]

\* new URL(s): throws TypeError unless s spells an absolute URL
CanParse(s) == s.def /\ s.url # NoUrl

\* url.searchParams: the list of name/value pairs of the query
searchParams(u) ==
  [i \in 1..Len(u.query) |-> [name |-> u.query[i].name, value |-> u.query[i].value]]

\* URLSearchParams.has
spHas(sp, n) == \E i \in 1..Len(sp) : sp[i].name = n

\* URLSearchParams.get: value of the first pair named n, null if none
spGet(sp, n) ==
  IF spHas(sp, n)
  THEN sp[CHOOSE i \in 1..Len(sp) :
            sp[i].name = n /\ \A j \in 1..(i-1) : sp[j].name # n].value
  ELSE Undefined

\* mutant: removes the first pair named n only
spDelete_first(sp, n) ==
  IF \E i \in 1..Len(sp) : sp[i].name = n
  THEN LET k == CHOOSE i \in 1..Len(sp) :
                  sp[i].name = n /\ \A j \in 1..(i-1) : sp[j].name # n
       IN SubSeq(sp, 1, k - 1) \o SubSeq(sp, k + 1, Len(sp))
  ELSE sp

\* URLSearchParams.delete: removes every pair named n
spDelete(sp, n) ==
  LET F[i \in 0..Len(sp)] ==
        IF i = 0 THEN <<>>
        ELSE IF sp[i].name # n THEN Append(F[i-1], sp[i]) ELSE F[i-1]
  IN F[Len(sp)]

\* URLSearchParams.set: the first pair named n gets the value, the other
\* pairs named n are removed; appended if there is none
spSet(sp, n, v) ==
  IF spHas(sp, n)
  THEN LET first == CHOOSE i \in 1..Len(sp) :
                      sp[i].name = n /\ \A j \in 1..(i-1) : sp[j].name # n
           F[i \in 0..Len(sp)] ==
             IF i = 0 THEN <<>>
             ELSE IF i = first THEN Append(F[i-1], [name |-> n, value |-> v])
             ELSE IF sp[i].name = n THEN F[i-1]
             ELSE Append(F[i-1], sp[i])
       IN F[Len(sp)]
  ELSE Append(sp, [name |-> n, value |-> v])

\* the URL after its searchParams were mutated: the query is re-serialised
\* (application/x-www-form-urlencoded: every pair is written name=value)
withSearchParams(u, sp) ==
  [path |-> u.path,
   query |-> [i \in 1..Len(sp) |-> RawParam(sp[i].name, TRUE, sp[i].value)],
   hash |-> u.hash]

-----------------------------------------------------------------------------
(* main.ts helpers *)

\* getSessionIdFromUrl(): result and the URL history.replaceState leaves
getSessionIdFromUrl(h) ==
  LET sp == searchParams(h) IN
  IF spHas(sp, "sid_hint")
  THEN LET sid == spGet(sp, "sid_hint")
           url == withSearchParams(h, spDelete(sp, "sid_hint"))
       IN [replaced |-> TRUE, href |-> url,
           sid |-> IF Truthy(sid) THEN sid ELSE Undefined]
  ELSE [replaced |-> FALSE, href |-> h, sid |-> Undefined]

\* mutant: the hash is not looked at
getReturnToUrl_noHash(h) ==
  IF h.path # "/" \/ h.query # <<>>
  THEN UrlStr(h)
  ELSE Undefined

\* getReturnToUrl()
getReturnToUrl(h) ==
  IF h.path # "/" \/ h.query # <<>> \/ h.hash # ""
  THEN UrlStr(h)
  ELSE Undefined

\* the payload signin() and signout() build
redirectPayload(h) ==
  LET returnTo == getReturnToUrl(h) IN
  [method |-> "replace",
   state |-> IF Truthy(returnTo) THEN ReturnToState(returnTo) ELSE NoState]

-----------------------------------------------------------------------------------------------------------------------------------------------------
(* The log of the call *)
Ev(op, p, u, url, v) ==
  [op |-> op, method |-> p.method, state |-> p.state, user |-> u, url |-> url, value |-> v]
NoPayload == [method |-> "", state |-> NoState]
\* a library call is made
Call(op) == Ev(op, NoPayload, NoUser, NoUrl, Undefined)
\* a library call settled (op names the outcome), with session id v
Settled(op, v) == Ev(op, NoPayload, NoUser, NoUrl, v)
\* userManager.signinRedirect(p) / userManager.signoutRedirect(p)
Redirect(op, p) == Ev(op, p, NoUser, NoUrl, Undefined)
\* the page load, history.replaceState({}, "", url), window.location.replace(url)
Browser(op, url) == Ev(op, NoPayload, NoUser, url, Undefined)
\* a caller-supplied function is called with the user / has completed
Hook(op, u) == Ev(op, NoPayload, u, NoUrl, Undefined)

Ops(op) == {i \in 1..Len(log) : log[i].op = op}
Count(op) == Cardinality(Ops(op))
Issued(op) == Ops(op) # {}

-----------------------------------------------------------------------------
(* Inputs *)
Paths == {"/", "/p"}
Hashes == {"", "#h"}
SidTexts == {"s1", "s2"}
\* user.profile.sid and sessionStatus.sid: string | undefined
SidValues == {Undefined, Str("")} \cup {Str(s) : s \in SidTexts}

\* return-to values a request state or a returnTo parameter can spell:
\* the empty string, a relative reference, absolute URLs
StaleUrl == [path |-> "/p", query |-> <<RawParam("sid_hint", TRUE, Str("s2"))>>, hash |-> ""]
PlainUrl == [path |-> "/p", query |-> <<RawParam("x", FALSE, Str(""))>>, hash |-> "#h"]
ReturnToValues == {Str(""), Str("/dashboard"), UrlStr(StaleUrl), UrlStr(PlainUrl)}

InitParams ==
  {RawParam("sid_hint", TRUE, Str(s)) : s \in {""} \cup SidTexts}
  \cup {RawParam("x", FALSE, Str(""))}
  \cup {RawParam("returnTo", TRUE, v) : v \in {Str(""), Str("/dashboard"), UrlStr(StaleUrl)}}

RECURSIVE Queries(_)
Queries(n) ==
  IF n = 0 THEN {<<>>}
  ELSE Queries(n - 1)
       \cup {Append(q, p) : q \in {r \in Queries(n - 1) : Len(r) = n - 1}, p \in InitParams}

InitUrls == {[path |-> p, query |-> q, hash |-> h] :
               p \in Paths, q \in Queries(MaxParams), h \in Hashes}

Users == {MkUser(e, s, NoState) : e \in BOOLEAN, s \in SidValues}
\* the state a redirect request carried: undefined, or an object whose
\* returnTo is missing or a string
States == {NoState} \cup {ReturnToState(v) : v \in ReturnToValues \cup {Undefined}}
\* what options.defaultReturnTo(user) answers
DefaultUrls == {[path |-> "/", query |-> <<>>, hash |-> ""],
                [path |-> "/home", query |-> <<RawParam("sid_hint", TRUE, Str("s1"))>>, hash |-> ""]}

NoOpts == [beforeSignout |-> FALSE, defaultReturnTo |-> Undefined]

Init ==
  /\ href \in InitUrls
  /\ store \in {NoUser} \cup Users
  /\ cbState = NoState
  /\ opts = NoOpts
  /\ fn = "none"
  /\ pc = "idle"
  /\ user = NoUser
  /\ sessionId = Undefined
  /\ state = NoState
  /\ log = <<>>
  /\ navigating = FALSE
  /\ out = "none"
  /\ err = ""
  /\ route = "any"
  /\ trail = <<>>

-----------------------------------------------------------------------------
(* Control: what the synchronous code between two awaits ends with *)

\* the async function awaits a library call or a hook: l is the log so far
await(at, l) ==
  /\ pc' = at
  /\ log' = l
  /\ UNCHANGED <<out, err, route, trail>>

\* the async function returns: its promise is fulfilled
return(l) ==
  /\ pc' = "done"
  /\ log' = l
  /\ out' = "fulfilled"
  /\ UNCHANGED <<err, route, trail>>

\* an exception leaves the async function: its promise is rejected
throw(e, l) ==
  /\ pc' = "done"
  /\ log' = l
  /\ out' = "rejected"
  /\ err' = e
  /\ UNCHANGED <<route, trail>>

\* the route the host application serves an entry point on
RouteOf(f) ==
  CASE f = "authenticate" -> "app"
    [] f = "signinRedirectCallback" -> "signinCallback"
    [] f = "signoutRedirectCallback" -> "signoutCallback"
    [] OTHER -> "signout"

\* the router calls an entry point on the freshly loaded page; the entry
\* point constructs its UserManager and awaits a first library call
enter(f, call) ==
  /\ fn = "none"
  /\ route \in {"any", RouteOf(f)}
  /\ UNCHANGED <<route, trail>>
  /\ fn' = f
  /\ out' = "pending"
  /\ err' = ""
  /\ pc' = call
  /\ log' = <<Browser("load", href), Call(call)>>

-----------------------------------------------------------------------------
(* signin(userManager) and signout(userManager), lines 294-320: build the  *)
(* payload from the current URL h, call the library and await it           *)
signin(h, l) ==
  await("signin", Append(l, Redirect("signinRedirect", redirectPayload(h))))

\* mutant: signout calls signinRedirect
signout_signin(h, l) ==
  await("signout", Append(l, Redirect("signinRedirect", redirectPayload(h))))

signout(h, l) ==
  await("signout", Append(l, Redirect("signoutRedirect", redirectPayload(h))))

\* lines 305, 319: the library's redirect promise resolved; signin/signout
\* go on to await a promise that never settles
never ==
  /\ pc \in {"signin", "signout"} /\ navigating
  /\ pc' = "never"
  /\ UNCHANGED <<href, store, opts, fn, user, sessionId, state, cbState, log, navigating, out, err,
                 route, trail>>

-----------------------------------------------------------------------------
(* authenticate(userManagerSettings), lines 253-292 *)

\* lines 254-257
authenticate_call ==
  /\ enter("authenticate", "getUser")
  /\ UNCHANGED <<href, store, opts, user, sessionId, state, cbState, navigating>>

\* mutant: === in place of !==
compare_inverted(u, sid, h, l) ==
  IF sid = u.sid THEN signout(h, l) ELSE return(l)

\* lines 289-291: the comparison with the profile's session id
compare(u, sid, h, l) ==
  IF sid # u.sid THEN signout(h, l) ELSE return(l)

\* mutant: a session id taken from the URL is trusted without comparison
session_trustHint(u, l0) ==
  LET r == getSessionIdFromUrl(href)
      l1 == Append(l0, Browser("getSessionIdFromUrl", href))
      l == IF r.replaced THEN Append(l1, Browser("replaceState", r.href)) ELSE l1
  IN /\ href' = r.href
     /\ user' = u
     /\ sessionId' = r.sid
     /\ IF Truthy(r.sid)
        THEN return(l)
        ELSE await("querySessionStatus", Append(l, Call("querySessionStatus")))

\* mutant: the provider is asked although the URL gave a session id
session_alwaysQuery(u, l0) ==
  LET r == getSessionIdFromUrl(href)
      l1 == Append(l0, Browser("getSessionIdFromUrl", href))
      l == IF r.replaced THEN Append(l1, Browser("replaceState", r.href)) ELSE l1
  IN /\ href' = r.href
     /\ user' = u
     /\ sessionId' = r.sid
     /\ await("querySessionStatus", Append(l, Call("querySessionStatus")))

\* mutant: signout builds its payload from the URL as it was loaded
session_staleHref(u, l0) ==
  LET r == getSessionIdFromUrl(href)
      l1 == Append(l0, Browser("getSessionIdFromUrl", href))
      l == IF r.replaced THEN Append(l1, Browser("replaceState", r.href)) ELSE l1
  IN /\ href' = r.href
     /\ user' = u
     /\ sessionId' = r.sid
     /\ IF Truthy(r.sid)
        THEN compare(u, r.sid, href, l)
        ELSE await("querySessionStatus", Append(l, Call("querySessionStatus")))

\* lines 273-285, up to the next await: read and strip the hint, then
\* compare, or ask the provider
session(u, l0) ==
  LET r == getSessionIdFromUrl(href)
      l1 == Append(l0, Browser("getSessionIdFromUrl", href))
      l == IF r.replaced THEN Append(l1, Browser("replaceState", r.href)) ELSE l1
  IN /\ href' = r.href
     /\ user' = u
     /\ sessionId' = r.sid
     /\ IF Truthy(r.sid)
        THEN compare(u, r.sid, r.href, l)
        ELSE await("querySessionStatus", Append(l, Call("querySessionStatus")))

\* lines 257-263: getUser() yielded the stored user
authenticate_getUser ==
  /\ fn = "authenticate" /\ pc = "getUser"
  /\ IF ~store.present \/ store.expired
     THEN /\ user' = store
          /\ await("signinSilent", Append(log, Call("signinSilent")))
          /\ UNCHANGED <<href, sessionId>>
     ELSE session(store, log)
  /\ UNCHANGED <<store, opts, fn, state, cbState, navigating>>

\* mutant: the check of lines 268-270 for a null user is missing
authenticate_signinSilent_noNullCheck ==
  /\ fn = "authenticate" /\ pc = "signinSilent"
  /\ \E res \in {"throw", "null", "user"}, s \in SidValues :
       /\ res # "user" => s = Undefined
       /\ LET l == Append(log, Settled("signinSilent:" \o res, s)) IN
          IF res = "user"
          THEN /\ store' = MkUser(FALSE, s, NoState)
               /\ session(store', l)
          ELSE IF res = "null"
          THEN /\ session(NoUser, l)
               /\ UNCHANGED store
          ELSE /\ signin(href, l)
               /\ user' = NoUser
               /\ UNCHANGED <<href, store, sessionId>>
  /\ UNCHANGED <<opts, fn, state, cbState, navigating>>

\* lines 263-271: signinSilent() threw, or yielded null or a renewed user
authenticate_signinSilent ==
  /\ fn = "authenticate" /\ pc = "signinSilent"
  /\ \E res \in {"throw", "null", "user"}, s \in SidValues :
       /\ res # "user" => s = Undefined
       /\ LET l == Append(log, Settled("signinSilent:" \o res, s)) IN
          IF res = "user"
          THEN /\ store' = MkUser(FALSE, s, NoState)
               /\ session(store', l)
          ELSE /\ signin(href, l)
               /\ user' = NoUser
               /\ UNCHANGED <<href, store, sessionId>>
  /\ UNCHANGED <<opts, fn, state, cbState, navigating>>

\* mutant: the try/catch of lines 275-280 is missing
authenticate_querySessionStatus_noCatch ==
  /\ fn = "authenticate" /\ pc = "querySessionStatus"
  /\ \E res \in {"throw", "null", "status"}, s \in SidValues :
       /\ res # "status" => s = Undefined
       /\ sessionId' = s
       /\ LET l == Append(log, Settled("querySessionStatus:" \o res, s)) IN
          IF res = "throw" THEN throw("querySessionStatus", l)
          ELSE IF ~Truthy(s) THEN signout(href, l)
          ELSE compare(user, s, href, l)
  /\ UNCHANGED <<href, store, opts, fn, user, state, cbState, navigating>>

\* lines 276-291: querySessionStatus() threw, or yielded null or a status
authenticate_querySessionStatus ==
  /\ fn = "authenticate" /\ pc = "querySessionStatus"
  /\ \E res \in {"throw", "null", "status"}, s \in SidValues :
       /\ res # "status" => s = Undefined
       /\ sessionId' = s
       /\ LET l == Append(log, Settled("querySessionStatus:" \o res, s)) IN
          IF res = "throw" \/ ~Truthy(s)
          THEN signout(href, l)
          ELSE compare(user, s, href, l)
  /\ UNCHANGED <<href, store, opts, fn, user, state, cbState, navigating>>

-----------------------------------------------------------------------------
(* signinRedirectCallback(userManagerSettings, options), lines 161-176 *)

\* lines 165-166; the request the provider answers carried cbState (any
\* state when the page was opened directly)
signinRedirectCallback_call ==
  /\ enter("signinRedirectCallback", "signinRedirectCallback")
  /\ cbState' \in IF route = "any" THEN States ELSE {cbState}
  /\ \E d \in DefaultUrls : opts' = [beforeSignout |-> FALSE, defaultReturnTo |-> UrlStr(d)]
  /\ UNCHANGED <<href, store, user, sessionId, state, navigating>>

\* line 168: returnTo || options.defaultReturnTo(user)
returnTarget(returnTo, default) ==
  IF Truthy(returnTo) THEN returnTo ELSE default

\* mutant: the sid_hint parameter is not set
withSidHint_none(url, sid) == url

\* mutant: searchParams.append in place of searchParams.set
withSidHint_append(url, sid) ==
  IF Truthy(sid)
  THEN withSearchParams(url, Append(searchParams(url), [name |-> "sid_hint", value |-> sid]))
  ELSE url

\* lines 169-172: the URL with the sid_hint parameter set
withSidHint(url, sid) ==
  IF Truthy(sid)
  THEN withSearchParams(url, spSet(searchParams(url), "sid_hint", sid))
  ELSE url

\* lines 166-175: the library finalized the sign-in and yielded the user
signinRedirectCallback_resume ==
  /\ fn = "signinRedirectCallback" /\ pc = "signinRedirectCallback"
  /\ \E s \in SidValues :
       LET u == MkUser(FALSE, s, cbState)
           returnTo == u.state.returnTo
           target == returnTarget(returnTo, opts.defaultReturnTo)
           l == IF Truthy(returnTo) THEN log
                ELSE Append(log, Hook("defaultReturnTo", u))
       IN /\ store' = u
          /\ user' = u
          /\ IF CanParse(target)
             THEN /\ await("never", Append(l, Browser("location.replace",
                                                      withSidHint(target.url, u.sid))))
                  /\ navigating' = TRUE
             ELSE /\ throw("TypeError", l)
                  /\ UNCHANGED navigating
  /\ UNCHANGED <<href, opts, fn, sessionId, state, cbState>>

-----------------------------------------------------------------------------
(* signoutRedirectCallback(userManagerSettings), lines 199-203 *)

\* lines 200-201; the sign-out request carried cbState
signoutRedirectCallback_call ==
  /\ enter("signoutRedirectCallback", "signoutRedirectCallback")
  /\ cbState' \in IF route = "any" THEN States ELSE {cbState}
  /\ UNCHANGED <<href, store, opts, user, sessionId, state, navigating>>

\* lines 201-202: the library finalized the sign-out (the stored user is
\* removed); a sign-in redirect with the response's userState is returned
signoutRedirectCallback_resume ==
  /\ fn = "signoutRedirectCallback" /\ pc = "signoutRedirectCallback"
  /\ store' = NoUser
  /\ await("tail", Append(Append(log, Settled("signoutRedirectCallback:response", Undefined)),
                          Redirect("signinRedirect", [method |-> "replace", state |-> cbState])))
  /\ UNCHANGED <<href, opts, fn, user, sessionId, state, cbState, navigating>>

-----------------------------------------------------------------------------
(* signoutRedirect(userManagerSettings, options = {}), lines 226-242 *)

\* lines 227-228
signoutRedirect_call ==
  /\ enter("signoutRedirect", "getUser")
  /\ \E b \in BOOLEAN : opts' = [beforeSignout |-> b, defaultReturnTo |-> Undefined]
  /\ UNCHANGED <<href, store, user, sessionId, state, cbState, navigating>>

\* mutant: a state object is attached whenever the parameter is present
returnToState_present(h) ==
  LET sp == searchParams(h) IN
  IF spHas(sp, "returnTo") THEN ReturnToState(spGet(sp, "returnTo")) ELSE NoState

\* lines 231-233: the state from the returnTo query parameter
returnToState(h) ==
  LET returnTo == spGet(searchParams(h), "returnTo") IN
  IF Truthy(returnTo) THEN ReturnToState(returnTo) ELSE NoState

\* mutant: beforeSignout is called but not awaited
signoutRedirect_getUser_noAwait ==
  /\ fn = "signoutRedirect" /\ pc = "getUser"
  /\ user' = store
  /\ state' = returnToState(href)
  /\ LET p == [method |-> "replace", state |-> state'] IN
     IF store.present
     THEN IF opts.beforeSignout
          THEN await("tail", Append(Append(log, Hook("beforeSignout", store)),
                                    Redirect("signoutRedirect", p)))
          ELSE await("tail", Append(log, Redirect("signoutRedirect", p)))
     ELSE await("tail", Append(log, Redirect("signinRedirect", p)))
  /\ UNCHANGED <<href, store, opts, fn, sessionId, cbState, navigating>>

\* lines 228-241: getUser() yielded the stored user
signoutRedirect_getUser ==
  /\ fn = "signoutRedirect" /\ pc = "getUser"
  /\ user' = store
  /\ state' = returnToState(href)
  /\ LET p == [method |-> "replace", state |-> state'] IN
     IF store.present
     THEN IF opts.beforeSignout
          THEN await("beforeSignout", Append(log, Hook("beforeSignout", store)))
          ELSE await("tail", Append(log, Redirect("signoutRedirect", p)))
     ELSE await("tail", Append(log, Redirect("signinRedirect", p)))
  /\ UNCHANGED <<href, store, opts, fn, sessionId, cbState, navigating>>

\* lines 236-238: the beforeSignout promise was fulfilled
signoutRedirect_beforeSignout ==
  /\ fn = "signoutRedirect" /\ pc = "beforeSignout"
  /\ await("tail", Append(Append(log, Hook("beforeSignout:done", user)),
                          Redirect("signoutRedirect", [method |-> "replace", state |-> state])))
  /\ UNCHANGED <<href, store, opts, fn, user, sessionId, state, cbState, navigating>>

\* line 236: the beforeSignout promise was rejected
beforeSignout_rejects ==
  /\ fn = "signoutRedirect" /\ pc = "beforeSignout"
  /\ throw("beforeSignout", log)
  /\ UNCHANGED <<href, store, opts, fn, user, sessionId, state, cbState, navigating>>

\* lines 202, 238, 240: the entry point returned the library's redirect
\* promise, which is fulfilled after the navigation was triggered
tail ==
  /\ pc = "tail" /\ navigating
  /\ return(log)
  /\ UNCHANGED <<href, store, opts, fn, user, sessionId, state, cbState, navigating>>

-----------------------------------------------------------------------------
(* The library, while the call awaits it *)

\* getUser(), signinRedirectCallback() or signoutRedirectCallback() reject;
\* main.ts has no handler for them
userManager_rejects ==
  /\ pc \in {"getUser", "signinRedirectCallback", "signoutRedirectCallback"}
  /\ throw(pc, log)
  /\ UNCHANGED <<href, store, opts, fn, user, sessionId, state, cbState, navigating>>

\* signinRedirect / signoutRedirect replace the location (redirectMethod
\* "replace"); the promise they returned is still pending
userManager_navigates ==
  /\ pc \in {"signin", "signout", "tail"} /\ ~navigating
  /\ navigating' = TRUE
  /\ UNCHANGED <<href, store, opts, fn, pc, user, sessionId, state, cbState, log, out, err,
                 route, trail>>

\* signinRedirect / signoutRedirect reject without navigating
userManager_redirectRejects ==
  /\ pc \in {"signin", "signout", "tail"} /\ ~navigating
  /\ throw("redirect", log)
  /\ UNCHANGED <<href, store, opts, fn, user, sessionId, state, cbState, navigating>>

Next ==
  \/ authenticate_call
  \/ authenticate_getUser
  \/ authenticate_signinSilent
  \/ authenticate_querySessionStatus
  \/ never
  \/ signinRedirectCallback_call
  \/ signinRedirectCallback_resume
  \/ signoutRedirectCallback_call
  \/ signoutRedirectCallback_resume
  \/ signoutRedirect_call
  \/ signoutRedirect_getUser
  \/ signoutRedirect_beforeSignout
  \/ beforeSignout_rejects
  \/ tail
  \/ userManager_rejects
  \/ userManager_navigates
  \/ userManager_redirectRejects

Spec == Init /\ [][Next]_vars

-----------------------------------------------------------------------------
(* The pages a navigation leads to.  The provider answers a sign-in        *)
(* request on redirect_uri and a sign-out request on                       *)
(* post_logout_redirect_uri, handing back the state the request carried;   *)
(* window.location.replace loads its target, where the application calls   *)
(* authenticate.                                                           *)
CallbackUrl == [path |-> "/callback", query |-> <<RawParam("code", TRUE, Str("c"))>>, hash |-> ""]

\* the navigation the page triggered: the redirect call or location.replace
Navigation == log[CHOOSE i \in 1..Len(log) :
                    log[i].op \in {"signinRedirect", "signoutRedirect", "location.replace"}]

\* the page left behind
Page == [fn |-> fn, op |-> Navigation.op, state |-> Navigation.state,
         url |-> Navigation.url, load |-> log[1].url, user |-> store]

load(r, u, st) ==
  /\ navigating /\ Len(trail) < MaxPages
  /\ trail' = Append(trail, Page)
  /\ route' = r
  /\ href' = u
  /\ cbState' = st
  /\ opts' = NoOpts
  /\ fn' = "none"
  /\ pc' = "idle"
  /\ user' = NoUser
  /\ sessionId' = Undefined
  /\ state' = NoState
  /\ log' = <<>>
  /\ navigating' = FALSE
  /\ out' = "none"
  /\ err' = ""
  /\ UNCHANGED store

\* after signinRedirect: the provider signs the user in and redirects back
provider_signin ==
  /\ navigating /\ Navigation.op = "signinRedirect"
  /\ load("signinCallback", CallbackUrl, Navigation.state)

\* after signoutRedirect: the provider ends the session and redirects back
provider_signout ==
  /\ navigating /\ Navigation.op = "signoutRedirect"
  /\ load("signoutCallback", CallbackUrl, Navigation.state)

\* after window.location.replace(url.href), line 174
location_replace ==
  /\ navigating /\ Navigation.op = "location.replace"
  /\ load("app", Navigation.url, NoState)

FlowInit == Init /\ Len(href.query) <= MaxFlowParams

FlowNext ==
  \/ Next
  \/ provider_signin
  \/ provider_signout
  \/ location_replace

FlowSpec == FlowInit /\ [][FlowNext]_vars

-----------------------------------------------------------------------------
(* A page load that starts with authenticate, where every library call     *)
(* succeeds and the provider knows one session, ProviderSid: signinSilent  *)
(* yields null or a user of that session, querySessionStatus and the       *)
(* sign-in callback answer that session, and every await settles.          *)
ProviderSid == Str("s1")

LibraryOk(l) ==
  \A i \in 1..Len(l) :
    /\ l[i].op \notin {"signinSilent:throw", "querySessionStatus:throw", "querySessionStatus:null"}
    /\ l[i].op \in {"signinSilent:user", "querySessionStatus:status"} => l[i].value = ProviderSid

ok_signinSilent == authenticate_signinSilent /\ LibraryOk(log')

ok_querySessionStatus == authenticate_querySessionStatus /\ LibraryOk(log')

ok_signinRedirectCallback_call == route = "signinCallback" /\ signinRedirectCallback_call

ok_signinRedirectCallback_resume == signinRedirectCallback_resume /\ store'.sid = ProviderSid

ok_signoutRedirectCallback_call == route = "signoutCallback" /\ signoutRedirectCallback_call

LoopNext ==
  \/ authenticate_call
  \/ authenticate_getUser
  \/ ok_signinSilent
  \/ ok_querySessionStatus
  \/ never
  \/ ok_signinRedirectCallback_call
  \/ ok_signinRedirectCallback_resume
  \/ ok_signoutRedirectCallback_call
  \/ signoutRedirectCallback_resume
  \/ tail
  \/ userManager_navigates
  \/ provider_signin
  \/ provider_signout
  \/ location_replace

LoopSpec == FlowInit /\ [][LoopNext]_vars /\ WF_vars(LoopNext)

-----------------------------------------------------------------------------
(* What a call was given, read off its log *)

\* the URL the page was loaded with
LoadUrl == log[1].url
\* the sid_hint the page was loaded with (first occurrence), if any
LoadHint == spGet(searchParams(LoadUrl), "sid_hint")
\* the session id querySessionStatus() answered, if it answered one
StatusSid ==
  IF Issued("querySessionStatus:status")
  THEN log[CHOOSE i \in Ops("querySessionStatus:status") : TRUE].value
  ELSE Undefined
\* the current session id: the hint if there is a non-empty one, else the
\* provider's answer
ResolvedSid == IF Truthy(LoadHint) THEN LoadHint ELSE StatusSid
\* authenticate holds a user: cached and not expired, or silently renewed
HasUser ==
  /\ fn = "authenticate"
  /\ Issued("getSessionIdFromUrl")
  /\ store.present /\ ~store.expired
Redirects == Ops("signinRedirect") \cup Ops("signoutRedirect")
AllReplace == \A i \in Redirects : log[i].method = "replace"

-----------------------------------------------------------------------------
(* C1: when getUser yields no user or an expired one and signinSilent      *)
(* throws or yields no user, authenticate calls signinRedirect (replace),  *)
(* calls no signoutRedirect and is never fulfilled; its promise stays      *)
(* pending for good once the navigation is triggered (it is rejected only  *)
(* if the signinRedirect call itself rejects).                             *)
C1_SilentFailed ==
  /\ fn = "authenticate"
  /\ ~store.present \/ store.expired
  /\ Issued("signinSilent:throw") \/ Issued("signinSilent:null")

C1_SigninRedirectNeverReturns ==
  C1_SilentFailed =>
    /\ Count("signinRedirect") = 1
    /\ AllReplace
    /\ Count("signoutRedirect") = 0
    /\ out # "fulfilled"
    /\ out = "rejected" => err = "redirect" /\ ~navigating
    /\ navigating => out = "pending"

C1_Witness ==
  C1_SilentFailed /\ store.expired /\ pc = "never" /\ navigating /\ out = "pending"

(* C2: with a user (cached and valid, or silently renewed) whose profile   *)
(* session id equals the resolved session id, authenticate returns         *)
(* normally without any redirect or navigation.                            *)
C2_Match == HasUser /\ Truthy(ResolvedSid) /\ ResolvedSid = store.sid

C2_MatchReturns ==
  C2_Match =>
    /\ out = "fulfilled"
    /\ Redirects = {}
    /\ ~navigating
    /\ ~Issued("location.replace")

C2_Witness ==
  C2_Match /\ out = "fulfilled" /\ Issued("signinSilent:user") /\ Issued("querySessionStatus:status")

(* C3: with a user, a resolved session id that differs from the profile's  *)
(* makes authenticate call signoutRedirect, never signinRedirect, and      *)
(* never return normally, for a hint from the URL and for an id from       *)
(* querySessionStatus alike.                                               *)
C3_Mismatch == HasUser /\ Truthy(ResolvedSid) /\ ResolvedSid # store.sid

C3_MismatchSignsOut ==
  C3_Mismatch =>
    /\ Count("signoutRedirect") = 1
    /\ AllReplace
    /\ Count("signinRedirect") = 0
    /\ out # "fulfilled"

C3_Witness ==
  C3_Mismatch /\ Truthy(LoadHint) /\ ~Issued("querySessionStatus") /\ pc = "never"

(* C4: once an entry point has triggered a navigation (through            *)
(* signinRedirect, signoutRedirect or location.replace), the promise it    *)
(* returned never settles.                                                 *)
C4_RedirectSuspendsForever == navigating => out = "pending"

(* C5: a signinSilent failure becomes a signinRedirect call and a          *)
(* querySessionStatus failure a signoutRedirect call; authenticate is      *)
(* never rejected with either failure (only with the redirect call's own). *)
C5_FailuresBecomeRedirects ==
  fn = "authenticate" =>
    /\ Issued("signinSilent:throw") =>
         /\ Count("signinRedirect") = 1 /\ Count("signoutRedirect") = 0
         /\ out = "rejected" => err = "redirect"
    /\ Issued("querySessionStatus:throw") =>
         /\ Count("signoutRedirect") = 1 /\ Count("signinRedirect") = 0
         /\ out = "rejected" => err = "redirect"
    /\ err \notin {"signinSilent", "querySessionStatus"}

C5_Witness ==
  /\ fn = "authenticate" /\ Issued("querySessionStatus:throw")
  /\ navigating /\ out = "pending" /\ pc = "never"

(* C6: after getSessionIdFromUrl ran on a URL with a sid_hint parameter,   *)
(* the visible URL has no sid_hint parameter, keeps its other parameters   *)
(* (names and values, in order), path and hash, was changed by             *)
(* history.replaceState without a navigation, and gives undefined to a     *)
(* second getSessionIdFromUrl.                                             *)
NotHint(p) == p.name # "sid_hint"
OtherParams(u) == SelectSeq(searchParams(u), NotHint)
HintCount(u) == Cardinality({i \in 1..Len(u.query) : u.query[i].name = "sid_hint"})

C6_HintStripped ==
  \A i \in Ops("getSessionIdFromUrl") :
    HintCount(log[i].url) > 0 =>
      /\ HintCount(href) = 0
      /\ OtherParams(href) = OtherParams(log[i].url)
      /\ href.path = log[i].url.path
      /\ href.hash = log[i].url.hash
      /\ Len(log) > i /\ log[i+1].op = "replaceState" /\ log[i+1].url = href
      /\ ~Issued("location.replace")
      /\ navigating => Redirects # {}
      /\ getSessionIdFromUrl(href).sid = Undefined
      /\ ~getSessionIdFromUrl(href).replaced

C6_Witness ==
  \E i \in Ops("getSessionIdFromUrl") :
    /\ HintCount(log[i].url) = 2
    /\ log[i].url.query[1].value = Str("")
    /\ href.query = <<>> /\ href.hash = "#h" /\ href.path = "/p"

C6_WitnessOther ==
  \E i \in Ops("getSessionIdFromUrl") :
    /\ HintCount(log[i].url) = 1
    /\ Len(OtherParams(href)) = 1

(* C7 as claimed: every signoutRedirect call in which getUser yields ends  *)
(* with exactly one redirect, signoutRedirect iff there is a local user    *)
(* and signinRedirect iff there is none, replace-style, with state         *)
(* {returnTo} exactly when the URL has a non-empty returnTo parameter.     *)
FirstReturnTo(u) ==
  IF \E i \in 1..Len(u.query) : u.query[i].name = "returnTo"
  THEN u.query[CHOOSE i \in 1..Len(u.query) :
         u.query[i].name = "returnTo" /\ \A j \in 1..(i-1) : u.query[j].name # "returnTo"].value
  ELSE Undefined
ExpectedState ==
  IF FirstReturnTo(LoadUrl) \in {Undefined, Str("")}
  THEN NoState
  ELSE [has |-> TRUE, returnTo |-> FirstReturnTo(LoadUrl)]
StateFromReturnTo == \A i \in Redirects : log[i].state = ExpectedState
GotUser == fn = "signoutRedirect" /\ pc # "getUser" /\ err # "getUser"

C7_ExactlyOneRedirect ==
  (GotUser /\ pc \in {"tail", "done"}) =>
    /\ Cardinality(Redirects) = 1
    /\ Issued("signoutRedirect") <=> store.present
    /\ Issued("signinRedirect") <=> ~store.present
    /\ AllReplace
    /\ StateFromReturnTo

(* C7 amended: at most one redirect per call; signinRedirect iff getUser   *)
(* yields no user; signoutRedirect iff it yields a user and beforeSignout  *)
(* is absent or has completed; replace-style and state as claimed.         *)
C7_OneRedirectUnlessHookPending ==
  GotUser =>
    /\ Cardinality(Redirects) <= 1
    /\ Issued("signinRedirect") <=> ~store.present
    /\ Issued("signoutRedirect") <=>
         (store.present /\ (opts.beforeSignout => Issued("beforeSignout:done")))
    /\ AllReplace
    /\ StateFromReturnTo

C7_Witness ==
  /\ GotUser /\ store.present /\ opts.beforeSignout
  /\ Issued("signoutRedirect") /\ navigating
  /\ ExpectedState = ReturnToState(Str("/dashboard"))
  /\ Len(LoadUrl.query) = 2 /\ LoadUrl.query[2] = RawParam("returnTo", TRUE, Str(""))

(* C8: with a beforeSignout callback and a local user, the callback is     *)
(* called with that user and has completed before signoutRedirect is       *)
(* called; it is not called without a local user; if it fails, no          *)
(* signoutRedirect is called.                                              *)
C8_BeforeSignoutFirst ==
  GotUser =>
    /\ (opts.beforeSignout /\ store.present) =>
         /\ Count("beforeSignout") = 1
         /\ \A i \in Ops("beforeSignout") : log[i].user = store
    /\ Issued("beforeSignout") => opts.beforeSignout /\ store.present
    /\ (opts.beforeSignout /\ Issued("signoutRedirect")) =>
         \E i \in Ops("beforeSignout"), j \in Ops("beforeSignout:done") :
           \A k \in Ops("signoutRedirect") : i < j /\ j < k
    /\ err = "beforeSignout" => Redirects = {}

C8_Witness ==
  /\ GotUser /\ opts.beforeSignout /\ store.present /\ store.sid = Str("s1")
  /\ Issued("beforeSignout:done") /\ Issued("signoutRedirect") /\ out = "fulfilled"

C8_WitnessFails ==
  GotUser /\ err = "beforeSignout" /\ out = "rejected"

(* C9: once the library has finalized the sign-in, signinRedirectCallback  *)
(* replaces the location exactly once, with a target built from the        *)
(* state's returnTo if that is a non-empty string and else from            *)
(* defaultReturnTo, which is called only in the latter case; the call      *)
(* never returns.                                                          *)
Finalized == fn = "signinRedirectCallback" /\ pc # "signinRedirectCallback"
                /\ err # "signinRedirectCallback"
ChosenTarget ==
  IF store.state.returnTo \in {Undefined, Str("")}
  THEN opts.defaultReturnTo
  ELSE store.state.returnTo

C9_NavigatesToReturnTo ==
  Finalized =>
    /\ Count("location.replace") = 1
    /\ \A i \in Ops("location.replace") :
         /\ log[i].url.path = ChosenTarget.url.path
         /\ log[i].url.hash = ChosenTarget.url.hash
         /\ OtherParams(log[i].url) = OtherParams(ChosenTarget.url)
    /\ Issued("defaultReturnTo") <=> store.state.returnTo \in {Undefined, Str("")}
    /\ out = "pending"

(* C10: the target signinRedirectCallback navigates to carries a sid_hint  *)
(* parameter, and every sid_hint it carries equals the signed-in user's    *)
(* profile session id.                                                     *)
C10_TargetCarriesSid ==
  fn = "signinRedirectCallback" =>
    \A i \in Ops("location.replace") :
      /\ HintCount(log[i].url) > 0
      /\ \A j \in 1..Len(log[i].url.query) :
           log[i].url.query[j].name = "sid_hint" => log[i].url.query[j].value = store.sid

(* C12: getReturnToUrl gives undefined exactly for path "/" with empty     *)
(* query and empty hash and the whole current URL otherwise; so a redirect *)
(* of authenticate carries state {returnTo: current URL} exactly when the  *)
(* page is not the application root, and no state otherwise.               *)
IsRoot(u) == u.path = "/" /\ Len(u.query) = 0 /\ u.hash = ""

C13_HintPreferred ==
  fn = "authenticate" =>
    /\ Truthy(LoadHint) =>
         /\ ~Issued("querySessionStatus")
         /\ Issued("getSessionIdFromUrl") =>
              /\ sessionId = LoadHint
              /\ out = "fulfilled" <=> LoadHint = store.sid
              /\ Issued("signoutRedirect") <=> LoadHint # store.sid
    /\ Count("querySessionStatus") <= 1
    /\ Issued("querySessionStatus") =>
         /\ ~Truthy(LoadHint)
         /\ store.present /\ ~store.expired
         /\ \A i \in Ops("querySessionStatus") :
              /\ \E j \in Ops("getUser") : j < i
              /\ \A j \in Ops("signinSilent") :
                   j < i /\ \E k \in Ops("signinSilent:user") : k < i

C13_Witness ==
  /\ fn = "authenticate" /\ Truthy(LoadHint) /\ HintCount(LoadUrl) = 2
  /\ Issued("signinSilent:user") /\ out = "fulfilled"

C13_WitnessQuery ==
  /\ fn = "authenticate" /\ HintCount(LoadUrl) = 1 /\ ~Truthy(LoadHint)
  /\ Issued("querySessionStatus:status") /\ out = "fulfilled"

(* C15: one authenticate call issues at most one redirect, is fulfilled    *)
(* only if it issued none, answers a missing user never with               *)
(* signoutRedirect and a session-id problem (query failed, no id,          *)
(* mismatch) never with signinRedirect.                                    *)
NoUserLeft == Issued("signinSilent:throw") \/ Issued("signinSilent:null")
SessionProblem ==
  \/ Issued("querySessionStatus:throw")
  \/ Issued("querySessionStatus:null")
  \/ Issued("querySessionStatus:status") /\ ~Truthy(StatusSid)
  \/ C3_Mismatch

C15_OneOutcome ==
  fn = "authenticate" =>
    /\ Cardinality(Redirects) <= 1
    /\ out = "fulfilled" => Redirects = {} /\ ~navigating
    /\ NoUserLeft => ~Issued("signoutRedirect")
    /\ SessionProblem => ~Issued("signinRedirect")
    /\ Issued("signinRedirect") => NoUserLeft
    /\ Issued("signoutRedirect") => SessionProblem

C15_Witness ==
  /\ fn = "authenticate" /\ Issued("querySessionStatus:status") /\ ~Truthy(StatusSid)
  /\ Issued("signoutRedirect") /\ pc = "never"

(* C16: the returnTo state of a signoutRedirect call of authenticate has   *)
(* no sid_hint parameter; if the URL was the root path with nothing but    *)
(* sid_hint parameters, the call carries no state.                         *)
OnlyHints(u) ==
  /\ u.path = "/" /\ u.hash = ""
  /\ Len(u.query) > 0
  /\ \A i \in 1..Len(u.query) : u.query[i].name = "sid_hint"

C16_WitnessState ==
  /\ fn = "authenticate" /\ HintCount(LoadUrl) = 1 /\ LoadUrl.path = "/p"
  /\ \E i \in Ops("signoutRedirect") : log[i].state.has

-----------------------------------------------------------------------------
(* Across pages *)

\* the page the browser came from
Prev == trail[Len(trail)]
\* the state attached where the chain of redirects began: on the page
\* before the sign-out callback, if the browser came through one
HasOrigin ==
  /\ trail # <<>>
  /\ Prev.fn = "signoutRedirectCallback" => Len(trail) > 1
Origin ==
  IF Prev.fn = "signoutRedirectCallback" THEN trail[Len(trail) - 1].state ELSE Prev.state
\* u is the URL r spells, but for sid_hint parameters
SameApartFromHint(u, r) ==
  /\ CanParse(r)
  /\ u.path = r.url.path
  /\ u.hash = r.url.hash
  /\ OtherParams(u) = OtherParams(r.url)

(* C11: the state a redirect was initiated with is the state of the        *)
(* sign-in redirect signoutRedirectCallback issues, which it issues after  *)
(* the sign-out was finalized; and its returnTo is, but for sid_hint, the  *)
(* URL signinRedirectCallback navigates to.                                *)
C11_ReturnToRoundTrip ==
  /\ (fn = "signoutRedirectCallback" /\ trail # <<>>) =>
       \A i \in Ops("signinRedirect") :
         /\ log[i].state = Prev.state
         /\ \E j \in Ops("signoutRedirectCallback:response") : j < i
  /\ (Finalized /\ HasOrigin /\ Truthy(Origin.returnTo)) =>
       /\ cbState = Origin
       /\ Count("location.replace") = 1
       /\ \A i \in Ops("location.replace") : SameApartFromHint(log[i].url, Origin.returnTo)

(* C14: when signinRedirectCallback has navigated for a user with session  *)
(* id s, authenticate on the page it navigated to, with that user cached   *)
(* and not expired, returns normally without signinSilent,                 *)
(* querySessionStatus or a redirect, and the URL has no sid_hint left.     *)
HandedOver ==
  /\ fn = "authenticate" /\ trail # <<>>
  /\ Prev.fn = "signinRedirectCallback" /\ Prev.op = "location.replace"
  /\ Truthy(Prev.user.sid)
  /\ store = Prev.user /\ ~store.expired
  /\ pc # "getUser" /\ err # "getUser"

C14_Handoff ==
  HandedOver =>
    /\ LoadUrl = Prev.url
    /\ out = "fulfilled"
    /\ ~Issued("signinSilent")
    /\ ~Issued("querySessionStatus")
    /\ Redirects = {} /\ ~navigating
    /\ HintCount(href) = 0
    /\ SameApartFromHint(href, UrlStr(Prev.url))

C14_Witness ==
  /\ HandedOver /\ out = "fulfilled" /\ Len(trail) = 2
  /\ trail[1].fn = "authenticate" /\ trail[1].state.has
  /\ HintCount(trail[1].state.returnTo.url) = 1
  /\ spGet(searchParams(trail[1].state.returnTo.url), "sid_hint") # Prev.user.sid

(* C17: when every library call succeeds and the provider knows one        *)
(* non-empty session id, a page load that starts with authenticate reaches *)
(* an authenticate call that returns normally, through at most one         *)
(* sign-out callback and one sign-in callback, whatever the cached user    *)
(* and the sid_hint of the first URL.                                      *)
Visits(f) ==
  Cardinality({i \in 1..Len(trail) : trail[i].fn = f}) + (IF fn = f THEN 1 ELSE 0)
RoundTripsBounded ==
  /\ Visits("signoutRedirectCallback") <= 1
  /\ Visits("signinRedirectCallback") <= 1
  /\ Visits("authenticate") <= 2
Returned == fn = "authenticate" /\ out = "fulfilled"

C17_NoRedirectLoop == []RoundTripsBounded /\ <>Returned

C17_Witness ==
  /\ Returned /\ Len(trail) = 3
  /\ trail[1].fn = "authenticate" /\ Truthy(spGet(searchParams(trail[1].load), "sid_hint"))
  /\ trail[2].fn = "signoutRedirectCallback"
  /\ trail[3].fn = "signinRedirectCallback"

====
